---- MODULE Spec2Model ----
(***************************************************************************)
(* NCCH container reader (core/file_sys/ncch_container.cpp): the LZSS      *)
(* decoder of the compressed .code section and the reader's state machine  *)
(* (OpenFile, Load, LoadSectionExeFS, ReadRomFS, ReadProgramId).           *)
(*                                                                         *)
(* Numbers.  TLC's integers are 31 bits wide, the program's are u32, u64   *)
(* and s64.  A number is held as a pair <<hi, lo>> that stands for         *)
(* hi * 2^16 + lo with 0 <= lo < 2^16; a u32 has hi < 2^16 as well, and    *)
(* u32 arithmetic truncates hi modulo 2^16, which is arithmetic modulo     *)
(* 2^32.                                                                   *)
(***************************************************************************)
EXTENDS Integers, Sequences, FiniteSets, TLC

VARIABLES
    file,             \* the backing file (FileUtil::IOFile file): the image bound
    pos,              \* the read pointer of file
    is_loaded,        \* NCCHContainer::is_loaded
    is_compressed,    \* NCCHContainer::is_compressed
    ncch_offset,      \* NCCHContainer::ncch_offset (u32)
    exefs_offset,     \* NCCHContainer::exefs_offset (u32)
    ncch_header,      \* NCCHContainer::ncch_header: the bytes of the fields read
    exheader_header,  \* NCCHContainer::exheader_header: likewise
    exefs_header,     \* NCCHContainer::exefs_header: its 8 section headers, as bytes
    op,               \* the last operation called on the reader
    result,           \* the status it returned
    buffer,           \* LoadSectionExeFS's buffer argument after the call: its bytes
    buffer_size,      \* and its size() (u32 range)
    program_id,       \* ReadProgramId's program_id argument after the call
    romfs,            \* ReadRomFS's offset and size arguments after the call
    load_result,      \* what the Load() run by the last operation returned
    load_io,          \* the seeks and reads that Load() made on file
    observed,         \* whether the last operation read the parsed state
    selected,         \* the ExeFS slot LoadSectionExeFS selected, or -1
    arg,              \* the argument of the last call: a section name or a file
    lz                \* the LZSS decoder's state

\* ------------------------------------------------------------------ numbers

B16 == 256 * 256

\* The pair of a small non-negative integer.
U(n) == <<n \div B16, n % B16>>

\* The integer of a pair below 2^31.
ToInt(a) == a[1] * B16 + a[2]

IsInt(a) == a[1] < 32768

Lt(a, b) == a[1] < b[1] \/ (a[1] = b[1] /\ a[2] < b[2])

Le(a, b) == a = b \/ Lt(a, b)

\* a + b, not truncated.
Add(a, b) == LET s == a[2] + b[2] IN <<a[1] + b[1] + (s \div B16), s % B16>>

Trunc32(a) == <<a[1] % B16, a[2]>>

\* u32 + u32 as the program computes it.
Add32(a, b) == Trunc32(Add(a, b))

\* u32 - u32 as the program computes it.
Sub32(a, b) ==
    LET l == a[2] - b[2]
        borrow == IF l < 0 THEN 1 ELSE 0
    IN  <<(a[1] - b[1] - borrow + 2 * B16) % B16, (l + B16) % B16>>

\* u32 * k for a small factor k, as the program computes it.
Mul32(a, k) == LET l == a[2] * k IN Trunc32(<<a[1] * k + (l \div B16), l % B16>>)

\* The u32 of four little-endian bytes b[at], ..., b[at + 3] (1-based).
LE32(b, at) == <<b[at + 3] * 256 + b[at + 2], b[at + 1] * 256 + b[at]>>


\* F(e), with e evaluated once.
Bind(e, F(_)) == CHOOSE y \in {F(x) : x \in {e}} : TRUE

\* ------------------------------------------------------------- LZSS decoder
(***************************************************************************)
(* The decoder as a machine whose state s is a record:                     *)
(*   pc             where the decoder is: "size" (LZSS_GetDecompressedSize),*)
(*                  "footer", "prelude", "while", "for", "copy" (places of *)
(*                  LZSS_Decompress), "done" (it returned) or "ub" (it     *)
(*                  touched memory outside a buffer: undefined behaviour)  *)
(*   compressed     the compressed bytes; compressed_size is their number  *)
(*   dsize          decompressed_size                                      *)
(*   index, stop_index, out, control, i, j, segment_offset, segment_size   *)
(*                  the locals of LZSS_Decompress                          *)
(*   tail           decompressed[out .. decompressed_size): every write is *)
(*                  decompressed[--out], so what has been written is this  *)
(*                  top part; below it the buffer holds the prelude        *)
(*   ret            "none" until the decoder returns, then "true"/"false"  *)
(*   oob            "none", or the access that fell outside a buffer       *)
(***************************************************************************)

CSize(s) == U(Len(s.compressed))

LZInit(blob) ==
    [pc |-> "size", compressed |-> blob, dsize |-> U(0), index |-> U(0),
     stop_index |-> U(0), out |-> U(0), control |-> 0, i |-> 0, j |-> 0,
     segment_offset |-> 0, segment_size |-> 0, tail |-> <<>>, ret |-> "none",
     oob |-> "none"]

\* The decoder at rest.
LZIdle == [LZInit(<<>>) EXCEPT !.pc = "idle"]

\* An access outside a buffer: the behaviour is undefined from here on.
LZUb(s, what) == [s EXCEPT !.pc = "ub", !.oob = what]

LZReturn(s, r) == [s EXCEPT !.pc = "done", !.ret = r]

\* compressed[x] for an index x inside the buffer.
CompAt(s, x) == s.compressed[ToInt(x) + 1]

InComp(s, x) == Lt(x, CSize(s))

InDec(s, x) == Lt(x, s.dsize)

\* decompressed[x] for an index x inside the buffer: a byte written by the
\* decoder, or what memset and memcpy left there.
DecAt(s, x) ==
    IF Le(s.out, x) THEN s.tail[ToInt(Sub32(x, s.out)) + 1]
    ELSE IF InComp(s, x) THEN CompAt(s, x)
    ELSE 0

\* u32 offset_size = *(u32*)(buffer + size - 4); return offset_size + size;
LZSS_GetDecompressedSize(s) ==
    IF Len(s.compressed) < 4 THEN LZUb(s, "size: read before compressed[0]")
    ELSE [s EXCEPT !.pc = "footer",
                   !.dsize = Add32(LE32(s.compressed, Len(s.compressed) - 3), CSize(s))]

\* footer, buffer_top_and_bottom, out, index, stop_index.
LZFooter(s) ==
    LET L == Len(s.compressed) IN
    IF L < 8 THEN LZUb(s, "footer: read before compressed[0]")
    ELSE [s EXCEPT !.pc = "prelude",
                   !.out = s.dsize,
                   !.index = Sub32(CSize(s), U(s.compressed[L - 4])),
                   !.stop_index =
                       Sub32(CSize(s), <<s.compressed[L - 5],
                                         s.compressed[L - 6] * 256 + s.compressed[L - 7]>>)]

\* memset(decompressed, 0, decompressed_size); memcpy(decompressed, compressed, compressed_size);
LZPrelude(s) ==
    IF Lt(s.dsize, CSize(s)) THEN LZUb(s, "memcpy: write past decompressed")
    ELSE [s EXCEPT !.pc = "while"]

\* while (index > stop_index) { u8 control = compressed[--index]; for (i = 0; ...
LZWhile(s) ==
    IF Lt(s.stop_index, s.index)
    THEN LET ix == Sub32(s.index, U(1)) IN
         IF ~InComp(s, ix) THEN LZUb([s EXCEPT !.index = ix], "control: read past compressed")
         ELSE [s EXCEPT !.pc = "for", !.index = ix, !.control = CompAt(s, ix), !.i = 0]
    ELSE LZReturn(s, "true")

\* The back-reference branch up to the copy loop.
LZSegment(s) ==
    IF Lt(s.index, U(2)) THEN LZReturn(s, "false")
    ELSE LET ix == Sub32(s.index, U(2))
             s1 == [s EXCEPT !.index = ix]
         IN  IF ~InComp(s, Add32(ix, U(1))) THEN LZUb(s1, "segment: read past compressed")
             ELSE LET seg == CompAt(s, ix) + CompAt(s, Add32(ix, U(1))) * 256
                      size == ((seg \div 4096) % 16) + 3
                      off == (seg % 4096) + 2
                      s2 == [s1 EXCEPT !.segment_size = size, !.segment_offset = off]
                  IN  IF Lt(s.out, U(size)) THEN LZReturn(s2, "false")
                      ELSE [s2 EXCEPT !.pc = "copy", !.j = 0]

\* The literal branch: decompressed[--out] = compressed[--index]; control <<= 1.
LZLiteral(s) ==
    IF Lt(s.out, U(1)) THEN LZReturn(s, "false")
    ELSE LET ix == Sub32(s.index, U(1))
             o == Sub32(s.out, U(1))
             s1 == [s EXCEPT !.index = ix, !.out = o]
         IN  IF ~InComp(s, ix) THEN LZUb(s1, "literal: read past compressed")
             ELSE IF ~InDec(s, o) THEN LZUb(s1, "literal: write past decompressed")
             ELSE [s1 EXCEPT !.tail = <<CompAt(s, ix)>> \o s.tail,
                             !.control = (s.control * 2) % 256,
                             !.i = s.i + 1]

\* One pass of for (unsigned i = 0; i < 8; i++) up to its branch.
LZFor(s) ==
    IF s.i >= 8 THEN [s EXCEPT !.pc = "while"]
    ELSE IF Le(s.index, s.stop_index) \/ Le(s.index, U(0)) \/ Le(s.out, U(0))
    THEN [s EXCEPT !.pc = "while"]
    ELSE IF s.control >= 128 THEN LZSegment(s)
    ELSE LZLiteral(s)

\* One pass of for (unsigned j = 0; j < segment_size; j++), and the end of
\* the back-reference branch.
LZCopy(s) ==
    IF s.j < s.segment_size
    THEN LET src == Add32(s.out, U(s.segment_offset)) IN
         IF ~Lt(src, s.dsize) THEN LZReturn(s, "false")
         ELSE LET o == Sub32(s.out, U(1)) IN
              IF ~InDec(s, o) THEN LZUb([s EXCEPT !.out = o], "copy: write past decompressed")
              ELSE [s EXCEPT !.out = o, !.tail = <<DecAt(s, src)>> \o s.tail,
                             !.j = s.j + 1]
    ELSE [s EXCEPT !.pc = "for", !.control = (s.control * 2) % 256, !.i = s.i + 1]

LZRunning(s) == s.pc \notin {"idle", "done", "ub"}

LZStep(s) ==
    CASE s.pc = "size" -> LZSS_GetDecompressedSize(s)
      [] s.pc = "footer" -> LZFooter(s)
      [] s.pc = "prelude" -> LZPrelude(s)
      [] s.pc = "while" -> LZWhile(s)
      [] s.pc = "for" -> LZFor(s)
      [] s.pc = "copy" -> LZCopy(s)
      [] OTHER -> s

\* LZSS_GetDecompressedSize, then LZSS_Decompress, run to their end.
RECURSIVE LZSS_Decompress(_)
LZSS_Decompress(s) ==
    IF LZRunning(s) THEN Bind(LZStep(s), LZSS_Decompress) ELSE s


\* ------------------------------------------------------- layout and constants

kMaxSections == 8

kBlockSize == 512

\* 0x0000000e00000000 as the eight little-endian bytes of a u64.
updateMask == <<0, 0, 0, 0, 14, 0, 0, 0>>

\* ncch_offset of the first NCCH of an NCSD file (0x4000).
NcsdNcchOffset == 16384

\* The 0x1000 that ReadRomFS adds to the RomFS offset and takes off its size.
RomFsHeaderSkip == 4096

\* sizeof(NCCH_Header), sizeof(ExHeader_Header), sizeof(ExeFs_Header).
SizeofNCCHHeader == 512

SizeofExHeader == 2048

SizeofExeFsHeader == 512

\* sizeof(ExeFs_SectionHeader): char name[8]; u32 offset; u32 size.
SizeofSectionHeader == 16

SectionNameLen == 8

\* Offsets of the fields the reader uses, within their structures.
OffMagic == 256

OffProgramId == 280

OffExefsOffset == 416

OffRomfsOffset == 432

OffRomfsSize == 436

OffExFlag == 13

OffExProgramId == 512

\* Loader::MakeMagic('N', 'C', 'C', 'H') and ('N', 'C', 'S', 'D'), as bytes in file order.
MagicNCCH == <<78, 67, 67, 72>>

MagicNCSD == <<78, 67, 83, 68>>

ResultStatus ==
    {"Success", "Error", "ErrorInvalidFormat", "ErrorEncrypted",
     "ErrorMemoryAllocationFailed", "ErrorNotUsed"}

Min(a, b) == IF a < b THEN a ELSE b

Max(a, b) == IF a < b THEN b ELSE a

Zeros(n) == [k \in 1..n |-> 0]

\* Byte k (0..3) of a u32, little-endian.
ByteOf(a, k) ==
    CASE k = 0 -> a[2] % 256
      [] k = 1 -> a[2] \div 256
      [] k = 2 -> a[1] % 256
      [] OTHER -> a[1] \div 256

\* ------------------------------------------------------------ file images
(***************************************************************************)
(* A file image is given by what its bytes hold:                           *)
(*   open       whether the path can be opened                             *)
(*   size       the file's length                                          *)
(*   ncsd       whether an NCSD header (magic NCSD) stands at offset 0;    *)
(*              the NCCH header then stands at 0x4000, else at 0           *)
(*   magic, pidN, exefs, romfs_off, romfs_size                             *)
(*              the NCCH header's magic, program_id, exefs_offset,         *)
(*              romfs_offset and romfs_size fields                         *)
(*   flag, pidX the ExHeader's codeset flag byte and ARM11 program_id; the *)
(*              ExHeader follows the NCCH header                           *)
(*   dirAt, dir where the ExeFS header's bytes stand, and its section      *)
(*              headers (those not given are zero)                         *)
(*   data       the bytes that follow the ExeFS header                     *)
(* Every other byte of the file is zero.                                   *)
(***************************************************************************)

ImgBase(f) == IF f.ncsd THEN NcsdNcchOffset ELSE 0

In(p, at, len) == at <= p /\ p < at + len

\* The byte at offset k (0..15) of a section header.
SectionByte(sec, k) ==
    IF k < SectionNameLen
    THEN (IF k < Len(sec.name) THEN sec.name[k + 1] ELSE 0)
    ELSE IF k < SectionNameLen + 4 THEN ByteOf(sec.offset, k - SectionNameLen)
    ELSE ByteOf(sec.size, k - SectionNameLen - 4)

\* The byte of image f at position p, 0 <= p < f.size.
ByteAt(f, p) ==
    LET b == ImgBase(f)
        x == ImgBase(f) + SizeofNCCHHeader
    IN  CASE f.ncsd /\ In(p, OffMagic, 4) -> MagicNCSD[p - OffMagic + 1]
          [] In(p, b + OffMagic, 4) -> f.magic[p - b - OffMagic + 1]
          [] In(p, b + OffProgramId, 8) -> f.pidN[p - b - OffProgramId + 1]
          [] In(p, b + OffExefsOffset, 4) -> ByteOf(f.exefs, p - b - OffExefsOffset)
          [] In(p, b + OffRomfsOffset, 4) -> ByteOf(f.romfs_off, p - b - OffRomfsOffset)
          [] In(p, b + OffRomfsSize, 4) -> ByteOf(f.romfs_size, p - b - OffRomfsSize)
          [] p = x + OffExFlag -> f.flag
          [] In(p, x + OffExProgramId, 8) -> f.pidX[p - x - OffExProgramId + 1]
          [] In(p, f.dirAt, SizeofSectionHeader * Len(f.dir)) ->
                SectionByte(f.dir[((p - f.dirAt) \div SizeofSectionHeader) + 1],
                            (p - f.dirAt) % SizeofSectionHeader)
          [] In(p, f.dirAt + SizeofExeFsHeader, Len(f.data)) ->
                f.data[p - f.dirAt - SizeofExeFsHeader + 1]
          [] OTHER -> 0

\* ------------------------------------------------------------ FileUtil::IOFile
\* IOFile is not part of this source file; it is modelled as the byte source
\* of the specification: a read returns the bytes that exist from the read
\* pointer on, and -1 when the file is not open.

IsOpen(f) == f.open

GetSize(f) == IF f.open THEN f.size ELSE 0

\* What ReadBytes(data, n) returns with the read pointer at p.
ReadCount(f, p, n) ==
    IF ~f.open THEN -1
    ELSE IF ~IsInt(p) \/ ToInt(p) >= f.size THEN 0
    ELSE Min(n, f.size - ToInt(p))

\* The read pointer after that read.
Advance(p, cnt) == IF cnt > 0 THEN Add(p, U(cnt)) ELSE p

\* The read pointer after Seek(p, SEEK_SET).
SeekSet(f, old, p) == IF f.open THEN p ELSE old

\* A field of len bytes at offset off of a structure, after a read of cnt
\* bytes from position p into the structure: the bytes read replace the old.
Field(f, p, cnt, old, off, len) ==
    [m \in 1..len |-> IF off + m - 1 < cnt THEN ByteAt(f, ToInt(p) + off + m - 1)
                      ELSE old[m]]


\* ------------------------------------------------------------ NCCHContainer

\* The reader's members, as one record.
Reader ==
    [file |-> file, pos |-> pos, is_loaded |-> is_loaded,
     is_compressed |-> is_compressed, ncch_offset |-> ncch_offset,
     exefs_offset |-> exefs_offset, ncch_header |-> ncch_header,
     exheader_header |-> exheader_header, exefs_header |-> exefs_header]

\* file.ReadBytes(&ncch_header, sizeof(NCCH_Header)) with the read pointer at p.
ReadNCCHHeader(f, p, cnt, old) ==
    [magic |-> Field(f, p, cnt, old.magic, OffMagic, 4),
     program_id |-> Field(f, p, cnt, old.program_id, OffProgramId, 8),
     exefs_offset |-> Field(f, p, cnt, old.exefs_offset, OffExefsOffset, 4),
     romfs_offset |-> Field(f, p, cnt, old.romfs_offset, OffRomfsOffset, 4),
     romfs_size |-> Field(f, p, cnt, old.romfs_size, OffRomfsSize, 4)]

\* file.ReadBytes(&exheader_header, sizeof(ExHeader_Header)).
ReadExHeader(f, p, cnt, old) ==
    [flag |-> Field(f, p, cnt, old.flag, OffExFlag, 1),
     program_id |-> Field(f, p, cnt, old.program_id, OffExProgramId, 8)]

\* file.ReadBytes(&exefs_header, sizeof(ExeFs_Header)): the section headers.
ReadExeFsHeader(f, p, cnt, old) ==
    Field(f, p, cnt, old, 0, SizeofSectionHeader * kMaxSections)

\* exheader_header.arm11_system_local_caps.program_id & ~updateMask != ncch_header.program_id
\* as C++ parses it: != binds tighter than &, so this is
\* exheader.program_id & (~updateMask != ncch_header.program_id), and the
\* comparison is 0 or 1.
NotUpdateMask == [k \in 1..8 |-> 255 - updateMask[k]]

ProgramIdMismatch(ex_id, ncch_id) ==
    LET ne == IF NotUpdateMask # ncch_id THEN 1 ELSE 0
    IN  (ex_id[1] % 2 = 1) /\ ne = 1

\* Load() in four parts.  Each takes the reader r and the seeks and reads io
\* made so far and gives the reader it leaves, the status Load() returns
\* there ("" when Load() goes on) and the seeks and reads made.

\* file.Seek(0, SEEK_SET) and the read of the header at offset 0.
LoadFirstHeader(a) ==
    LET f == a.r.file
        at == SeekSet(f, a.r.pos, U(0))
        c1 == ReadCount(f, at, SizeofNCCHHeader)
    IN  [r |-> [a.r EXCEPT !.ncch_header = ReadNCCHHeader(f, at, c1, a.r.ncch_header),
                           !.pos = Advance(at, c1)],
         res |-> IF c1 # SizeofNCCHHeader THEN "Error" ELSE "",
         io |-> a.io + 2]

\* The NCSD branch: its read's count is not looked at.
LoadSkipNCSD(a) ==
    LET f == a.r.file
        at == SeekSet(f, a.r.pos, U(NcsdNcchOffset))
        c2 == ReadCount(f, at, SizeofNCCHHeader)
    IN  [r |-> [a.r EXCEPT !.ncch_offset = U(NcsdNcchOffset),
                           !.ncch_header = ReadNCCHHeader(f, at, c2, a.r.ncch_header),
                           !.pos = Advance(at, c2)],
         res |-> "",
         io |-> a.io + 2]

\* The check of the NCCH magic.
LoadCheckMagic(a) ==
    [a EXCEPT !.res = IF a.r.ncch_header.magic # MagicNCCH THEN "ErrorInvalidFormat"
                      ELSE ""]

\* The read of the ExHeader, is_compressed, and the program id check.
LoadExHeader(a) ==
    LET f == a.r.file
        c3 == ReadCount(f, a.r.pos, SizeofExHeader)
        ex == ReadExHeader(f, a.r.pos, c3, a.r.exheader_header)
    IN  IF c3 # SizeofExHeader
        THEN [r |-> [a.r EXCEPT !.exheader_header = ex, !.pos = Advance(a.r.pos, c3)],
              res |-> "Error", io |-> a.io + 1]
        ELSE [r |-> [a.r EXCEPT !.exheader_header = ex, !.pos = Advance(a.r.pos, c3),
                                !.is_compressed = (ex.flag[1] % 2 = 1)],
              res |-> IF ProgramIdMismatch(ex.program_id, a.r.ncch_header.program_id)
                      THEN "ErrorEncrypted" ELSE "",
              io |-> a.io + 1]

\* exefs_offset, the seek to the ExeFS header and its read; is_loaded = true.
LoadExeFs(a) ==
    LET f == a.r.file
        eo == Mul32(LE32(a.r.ncch_header.exefs_offset, 1), kBlockSize)
        at == SeekSet(f, a.r.pos, Add32(eo, a.r.ncch_offset))
        c4 == ReadCount(f, at, SizeofExeFsHeader)
        r5 == [a.r EXCEPT !.exefs_offset = eo,
                          !.exefs_header = ReadExeFsHeader(f, at, c4, a.r.exefs_header),
                          !.pos = Advance(at, c4)]
    IN  IF c4 # SizeofExeFsHeader THEN [r |-> r5, res |-> "Error", io |-> a.io + 2]
        ELSE [r |-> [r5 EXCEPT !.is_loaded = TRUE], res |-> "Success", io |-> a.io + 2]

\* The next part of Load(), unless Load() has returned.
Then(a, F(_)) == IF a.res # "" THEN a ELSE Bind(a, F)

LoadNCSD(a) == IF a.r.ncch_header.magic = MagicNCSD THEN LoadSkipNCSD(a) ELSE a

\* Load() without its test of is_loaded: it parses the file on every call.
LoadReparse(r) ==
    Bind(LoadFirstHeader([r |-> r, res |-> "", io |-> 0]),
         LAMBDA a : Bind(Then(a, LoadNCSD),
         LAMBDA b : Bind(Then(b, LoadCheckMagic),
         LAMBDA c : Bind(Then(c, LoadExHeader),
         LAMBDA d : Then(d, LoadExeFs)))))

\* Loader::ResultStatus NCCHContainer::Load(): the reader after the call, the
\* status returned, and the seeks and reads made.
Load(r) ==
    IF r.is_loaded THEN [r |-> r, res |-> "Success", io |-> 0]
    ELSE Bind(LoadFirstHeader([r |-> r, res |-> "", io |-> 0]),
              LAMBDA a : Bind(Then(a, LoadNCSD),
              LAMBDA b : Bind(Then(b, LoadCheckMagic),
              LAMBDA c : Bind(Then(c, LoadExHeader),
              LAMBDA d : Then(d, LoadExeFs)))))

\* strcmp(section.name, name) == 0 for the section header that starts at
\* byte `at` (1-based) of exefs_header: strcmp reads section.name up to the
\* first NUL or the first difference, and name (a C string) ends with a NUL.
StrCmpEq(hdr, at, name) ==
    LET cstr == name \o <<0>>
    IN  \A k \in 1..Len(cstr) : hdr[at + k - 1] = cstr[k]

SectionAt(n) == SizeofSectionHeader * n + 1

\* The section numbers whose name strcmp finds equal to name.
Matching(hdr, name) ==
    {n \in 0..(kMaxSections - 1) : StrCmpEq(hdr, SectionAt(n), name)}

SetMin(S) == CHOOSE x \in S : \A y \in S : x <= y

\* The section the loop of LoadSectionExeFS stops at, or -1.
FindSection(hdr, name) ==
    IF Matching(hdr, name) = {} THEN -1 ELSE SetMin(Matching(hdr, name))

SectionOffset(hdr, n) == LE32(hdr, SectionAt(n) + SectionNameLen)

SectionSize(hdr, n) == LE32(hdr, SectionAt(n) + SectionNameLen + 4)

\* s64 section_offset = (section.offset + exefs_offset + sizeof(ExeFs_Header) + ncch_offset):
\* u32 + u32 is a u32, and adding the size_t sizeof makes the rest 64 bits wide.
SectionFileOffset(r, n) ==
    Add(Add(Add32(SectionOffset(r.exefs_header, n), r.exefs_offset),
            U(SizeofExeFsHeader)),
        r.ncch_offset)

\* A buffer's bytes are held up to this many; a longer buffer is held by its
\* size alone.
MaxBufferHeld == 48

Held(size) == IF IsInt(size) /\ ToInt(size) <= MaxBufferHeld THEN ToInt(size) ELSE 0

\* The n bytes a read of cnt bytes at p leaves in a zero-filled buffer.
ReadInto(f, p, cnt, n) ==
    [k \in 1..n |-> IF k <= cnt THEN ByteAt(f, ToInt(p) + k - 1) ELSE 0]

DotCode == <<46, 99, 111, 100, 101>>

\* The decompressed buffer when the decoder has stopped.
Decompressed(s) == [k \in 1..Held(s.dsize) |-> DecAt(s, U(k - 1))]

\* What a branch of LoadSectionExeFS gives: the reader, the status, the
\* buffer, and the decoder's last state.  ub: the call left defined behaviour,
\* and its status is whatever the build makes of it.
Got(r, res, buf, size, ub, s) ==
    [r |-> r, res |-> res, buffer |-> buf, buffer_size |-> size, ub |-> ub, lz |-> s]

\* The end of the compressed branch, the decoder having stopped in state s.
AfterDecompress(r, s) ==
    IF s.pc = "ub" THEN Got(r, "Success", <<>>, s.dsize, TRUE, s)
    ELSE Got(r, IF s.ret = "true" THEN "Success" ELSE "ErrorInvalidFormat",
             Decompressed(s), s.dsize, FALSE, s)

\* The compressed branch of LoadSectionExeFS for a section of `size` bytes at
\* file offset `at`.  A section of 2^31 bytes or more is taken not to be
\* allocated.
LoadCompressed(r, at, size) ==
    IF ~IsInt(size) THEN Got(r, "ErrorMemoryAllocationFailed", <<>>, U(0), FALSE, LZIdle)
    ELSE LET f == r.file
             n == ToInt(size)
             cnt == ReadCount(f, at, n)
             r1 == [r EXCEPT !.pos = Advance(at, cnt)]
         IN  IF cnt # n THEN Got(r1, "Error", <<>>, U(0), FALSE, LZIdle)
             ELSE Bind(LZSS_Decompress(LZInit(ReadInto(f, at, cnt, n))),
                       LAMBDA s : AfterDecompress(r1, s))

\* The uncompressed branch: buffer.resize(section.size), then the read.
LoadUncompressed(r, at, size) ==
    LET f == r.file
        cnt == IF IsInt(size) THEN ReadCount(f, at, ToInt(size))
               ELSE ReadCount(f, at, f.size)
    IN  Got([r EXCEPT !.pos = Advance(at, cnt)],
            IF ~IsInt(size) \/ cnt # ToInt(size) THEN "Error" ELSE "Success",
            ReadInto(f, at, cnt, Held(size)), size, FALSE, LZIdle)

\* The body of the loop of LoadSectionExeFS for the section n it stops at.
LoadFound(r, n) ==
    LET at == SeekSet(r.file, r.pos, SectionFileOffset(r, n))
        size == SectionSize(r.exefs_header, n)
    IN  IF StrCmpEq(r.exefs_header, SectionAt(n), DotCode) /\ r.is_compressed
        THEN LoadCompressed(r, at, size)
        ELSE LoadUncompressed(r, at, size)

\* LoadSectionExeFS, once Load() has returned Success and left the reader r:
\* what the branch gives, and the section selected (-1: none).
LoadSection(r, name) ==
    Bind(FindSection(r.exefs_header, name),
         LAMBDA n : [got |-> IF n < 0
                             THEN Got(r, "ErrorNotUsed", <<>>, U(0), FALSE, LZIdle)
                             ELSE LoadFound(r, n),
                     sel |-> n])

\* What LoadSectionExeFS gives after Load() gave l.
AfterLoadSection(l, g, obs) ==
    [r |-> g.got.r, res |-> g.got.res, buffer |-> g.got.buffer,
     buffer_size |-> g.got.buffer_size, ub |-> g.got.ub, lz |-> g.got.lz,
     sel |-> g.sel, load_res |-> l.res, load_io |-> l.io, observed |-> obs]

\* Loader::ResultStatus NCCHContainer::LoadSectionExeFS(const char* name, std::vector<u8>& buffer)
LoadSectionExeFS(r, name) ==
    IF ~IsOpen(r.file)
    THEN AfterLoadSection([res |-> "none", io |-> 0],
                          [got |-> Got(r, "Error", <<>>, U(0), FALSE, LZIdle), sel |-> -1],
                          FALSE)
    ELSE Bind(Load(r),
              LAMBDA l :
                  IF l.res # "Success"
                  THEN AfterLoadSection(l, [got |-> Got(l.r, l.res, <<>>, U(0), FALSE, LZIdle),
                                            sel |-> -1], FALSE)
                  ELSE Bind(LoadSection(l.r, name),
                            LAMBDA g : AfterLoadSection(l, g, TRUE)))

\* u32 romfs_offset = ncch_offset + (ncch_header.romfs_offset * kBlockSize) + 0x1000;
RomFsOffset(r) ==
    Add32(Add32(r.ncch_offset, Mul32(LE32(r.ncch_header.romfs_offset, 1), kBlockSize)),
          U(RomFsHeaderSkip))

\* u32 romfs_size = (ncch_header.romfs_size * kBlockSize) - 0x1000;
RomFsSize(r) ==
    Sub32(Mul32(LE32(r.ncch_header.romfs_size, 1), kBlockSize), U(RomFsHeaderSkip))

\* A ReadRomFS that takes the header to name a RomFS as soon as its
\* romfs_offset is not 0.
ReadRomFSOffsetOnly(r) ==
    IF ~IsOpen(r.file) THEN [res |-> "Error", romfs |-> <<>>, observed |-> FALSE]
    ELSE IF LE32(r.ncch_header.romfs_offset, 1) # U(0)
    THEN IF Lt(U(GetSize(r.file)), Add32(RomFsOffset(r), RomFsSize(r)))
         THEN [res |-> "Error", romfs |-> <<>>, observed |-> TRUE]
         ELSE [res |-> "Success", romfs |-> <<RomFsOffset(r), RomFsSize(r)>>,
               observed |-> TRUE]
    ELSE [res |-> "ErrorNotUsed", romfs |-> <<>>, observed |-> TRUE]

\* Loader::ResultStatus NCCHContainer::ReadRomFS(romfs_file, offset, size):
\* it does not call Load().
ReadRomFS(r) ==
    IF ~IsOpen(r.file) THEN [res |-> "Error", romfs |-> <<>>, observed |-> FALSE]
    ELSE IF LE32(r.ncch_header.romfs_offset, 1) # U(0)
            /\ LE32(r.ncch_header.romfs_size, 1) # U(0)
    THEN IF Lt(U(GetSize(r.file)), Add32(RomFsOffset(r), RomFsSize(r)))
         THEN [res |-> "Error", romfs |-> <<>>, observed |-> TRUE]
         ELSE [res |-> "Success", romfs |-> <<RomFsOffset(r), RomFsSize(r)>>,
               observed |-> TRUE]
    ELSE [res |-> "ErrorNotUsed", romfs |-> <<>>, observed |-> TRUE]

\* Loader::ResultStatus NCCHContainer::ReadProgramId(u64_le& program_id)
ReadProgramId(r) ==
    Bind(Load(r),
         LAMBDA l :
             IF l.res # "Success"
             THEN [r |-> l.r, res |-> l.res, program_id |-> <<>>, load_res |-> l.res,
                   load_io |-> l.io, observed |-> FALSE]
             ELSE [r |-> l.r, res |-> "Success",
                   program_id |-> l.r.ncch_header.program_id,
                   load_res |-> l.res, load_io |-> l.io, observed |-> TRUE])

\* An OpenFile that also marks the reader as not loaded.
OpenFileReset(r, f) == [r EXCEPT !.file = f, !.pos = U(0), !.is_loaded = FALSE]

\* NCCHContainer::OpenFile(std::string filepath): the reader after the call.
\* Only filepath and file are assigned.
OpenFile(r, f) == [r EXCEPT !.file = f, !.pos = U(0)]


\* ------------------------------------------------------------- the inputs

\* Program ids, as the eight little-endian bytes of a u64.
Pid1 == <<0, 52, 18, 0, 0, 0, 4, 0>>        \* 0x0004000000123400

Pid1Other == <<0, 52, 18, 0, 0, 2, 4, 0>>   \* 0x0004020000123400

Pid1Update == <<0, 52, 18, 0, 14, 0, 4, 0>> \* 0x0004000E00123400

Pid2 == <<0, 86, 52, 0, 0, 0, 4, 0>>        \* 0x0004000000345600

PidOdd == <<1, 52, 18, 0, 0, 0, 4, 0>>      \* 0x0004000000123401

\* Section names, as bytes.
NameIcon == <<105, 99, 111, 110>>

NameBanner == <<98, 97, 110, 110, 101, 114>>

NameLogo == <<108, 111, 103, 111>>

NameIconIcon == <<105, 99, 111, 110, 105, 99, 111, 110>>

NameEmpty == <<>>

Names == {DotCode, NameIcon, NameLogo, NameIconIcon, NameEmpty}

Sec(name, offset, size) == [name |-> name, offset |-> U(offset), size |-> U(size)]

\* .code, icon and banner.
DirPlain == <<Sec(DotCode, 0, 4), Sec(NameIcon, 8, 4), Sec(NameBanner, 16, 2)>>

DataPlain == <<1, 2, 3, 4, 0, 0, 0, 0, 5, 6, 7, 8, 0, 0, 0, 0, 9, 10>>

\* An empty slot, icon twice, a name that fills its field, a section that
\* runs past the end of the file, and a section whose offset is
\* 0xFFFFF608: plus the ExeFS offset 0xA00 of the images that is 2^32 + 8.
DirNames ==
    <<Sec(NameEmpty, 16, 2), Sec(NameIcon, 0, 4), Sec(NameIcon, 8, 4),
      Sec(NameIconIcon, 4, 4), Sec(DotCode, 12, 40),
      [name |-> NameLogo, offset |-> <<65535, 62984>>, size |-> U(4)]>>

\* A compressed .code: two literals under a control byte of 0, and the footer
\* (stop 11 bytes and start 8 bytes below the end, 3 bytes more when decompressed).
BlobLiterals == <<65, 66, 0, 11, 0, 0, 8, 3, 0, 0, 0>>

\* A compressed .code whose control byte of 0xFF asks for a back-reference at once.
BlobBadReference == <<0, 0, 255, 11, 0, 0, 8, 3, 0, 0, 0>>

\* A compressed .code whose footer adds 0xFFFFFFFF bytes.
BlobAddsAll == <<65, 66, 0, 11, 0, 0, 8, 255, 255, 255, 255>>

ImgBare ==
    [open |-> TRUE, ncsd |-> FALSE, size |-> 3090, magic |-> MagicNCCH,
     pidN |-> Pid1, pidX |-> Pid1, flag |-> 0, exefs |-> U(5),
     romfs_off |-> U(0), romfs_size |-> U(0), dirAt |-> 2560, dir |-> DirPlain,
     data |-> DataPlain]

\* An NCSD file: the NCCH at 0x4000, its ExeFS at 0x4A00, a RomFS of one block.
ImgNcsd ==
    [ImgBare EXCEPT !.ncsd = TRUE, !.size = 24064, !.pidN = Pid2, !.pidX = Pid2,
                    !.dirAt = 18944, !.romfs_off = U(6), !.romfs_size = U(9)]

ImgBadMagic == [ImgBare EXCEPT !.magic = <<88, 88, 88, 88>>]

\* An NCSD file that ends where its NCCH should start.
ImgNcsdTruncated == [ImgNcsd EXCEPT !.size = 16384]

\* An NCSD file that ends within its NCCH header.
ImgNcsdPartial == [ImgNcsd EXCEPT !.size = 16684]

\* A file that ends within the header at offset 0.
ImgShort == [ImgBare EXCEPT !.size = 260]

ImgMismatch == [ImgBare EXCEPT !.pidX = Pid1Other]

ImgOdd == [ImgBare EXCEPT !.pidN = PidOdd, !.pidX = PidOdd]

ImgUpdate == [ImgBare EXCEPT !.pidX = Pid1Update]

\* exefs_offset = 0x800000 blocks: times 0x200 that is 2^32.
ImgExefsWrap == [ImgBare EXCEPT !.exefs = <<128, 0>>]

\* A file of 0x5000 bytes whose ExeFS would start at its end.
ImgExefsTruncated == [ImgBare EXCEPT !.size = 20480, !.exefs = U(40), !.dirAt = 20480]

ImgNames == [ImgBare EXCEPT !.dir = DirNames]

ImgCompressed ==
    [ImgBare EXCEPT !.flag = 1, !.dir = <<Sec(DotCode, 0, 11), Sec(NameIcon, 12, 4)>>,
                    !.data = BlobLiterals \o <<0, 5, 6, 7, 8>>]

ImgCompressedBad ==
    [ImgCompressed EXCEPT !.data = BlobBadReference \o <<0, 5, 6, 7, 8>>]

\* A compressed .code of 4 bytes: too short to hold a footer.
ImgCompressedTiny == [ImgBare EXCEPT !.flag = 1]

\* A compressed .code whose decompressed size wraps; the header names a
\* RomFS offset but a RomFS size of 0.
ImgCompressedWrap ==
    [ImgCompressed EXCEPT !.data = BlobAddsAll \o <<0, 5, 6, 7, 8>>,
                          !.romfs_off = U(1)]

\* A RomFS of one block: less than the 0x1000 bytes that are skipped.
ImgRomFsSmall == [ImgBare EXCEPT !.romfs_off = U(1), !.romfs_size = U(1)]

\* A path that cannot be opened.
ImgNone == [ImgBare EXCEPT !.open = FALSE]

Images ==
    {ImgBare, ImgNcsd, ImgBadMagic, ImgNcsdTruncated, ImgNcsdPartial, ImgShort,
     ImgMismatch, ImgOdd, ImgUpdate, ImgExefsWrap, ImgExefsTruncated, ImgNames,
     ImgCompressed, ImgCompressedBad, ImgCompressedTiny, ImgCompressedWrap,
     ImgRomFsSmall, ImgNone}

\* ncch_header, exheader_header and exefs_header have no initialiser: what
\* they hold before the first read is indeterminate.
GarbageNCCHHeaders ==
    {[magic |-> Zeros(4), program_id |-> Zeros(8), exefs_offset |-> Zeros(4),
      romfs_offset |-> Zeros(4), romfs_size |-> Zeros(4)],
     [magic |-> Zeros(4), program_id |-> Pid2, exefs_offset |-> Zeros(4),
      romfs_offset |-> <<1, 0, 0, 0>>, romfs_size |-> <<9, 0, 0, 0>>]}

GarbageExHeader == [flag |-> Zeros(1), program_id |-> Zeros(8)]

GarbageExeFsHeader == Zeros(SizeofSectionHeader * kMaxSections)

\* ------------------------------------------------------------- the reader

readerVars ==
    <<file, pos, is_loaded, is_compressed, ncch_offset, exefs_offset, ncch_header,
      exheader_header, exefs_header>>

callVars == <<op, result, buffer, buffer_size, program_id, romfs, load_result, load_io, observed,
              selected, arg>>

vars == <<readerVars, callVars, lz>>

\* The members as the class declares them: is_loaded = false,
\* is_compressed = false, ncch_offset = 0, exefs_offset = 0.
MemberDefaults ==
    /\ is_loaded = FALSE
    /\ is_compressed = FALSE
    /\ ncch_offset = U(0)
    /\ exefs_offset = U(0)

NoCall ==
    /\ op = "new"
    /\ result = "none"
    /\ buffer = <<>>
    /\ buffer_size = U(0)
    /\ program_id = <<>>
    /\ romfs = <<>>
    /\ load_result = "none"
    /\ load_io = 0
    /\ observed = FALSE
    /\ selected = -1
    /\ arg = <<>>

\* NCCHContainer::NCCHContainer(std::string filepath)
Init ==
    /\ file \in Images
    /\ pos = U(0)
    /\ MemberDefaults
    /\ ncch_header \in GarbageNCCHHeaders
    /\ exheader_header = GarbageExHeader
    /\ exefs_header = GarbageExeFsHeader
    /\ NoCall
    /\ lz = LZIdle

SetReader(r) ==
    /\ file' = r.file
    /\ pos' = r.pos
    /\ is_loaded' = r.is_loaded
    /\ is_compressed' = r.is_compressed
    /\ ncch_offset' = r.ncch_offset
    /\ exefs_offset' = r.exefs_offset
    /\ ncch_header' = r.ncch_header
    /\ exheader_header' = r.exheader_header
    /\ exefs_header' = r.exefs_header

\* OpenFile has no return statement: the status its caller gets is undefined.
DoOpenFile ==
    \E f \in Images :
        /\ SetReader(OpenFile(Reader, f))
        /\ op' = "OpenFile"
        /\ arg' = f
        /\ result' \in ResultStatus
        /\ buffer' = <<>> /\ buffer_size' = U(0) /\ program_id' = <<>> /\ romfs' = <<>>
        /\ load_result' = "none" /\ load_io' = 0
        /\ observed' = FALSE /\ selected' = -1
        /\ lz' = LZIdle

DoLoad ==
    \E l \in {Load(Reader)} :
        /\ SetReader(l.r)
        /\ op' = "Load"
        /\ arg' = <<>>
        /\ result' = l.res
        /\ buffer' = <<>> /\ buffer_size' = U(0) /\ program_id' = <<>> /\ romfs' = <<>>
        /\ load_result' = l.res /\ load_io' = l.io
        /\ observed' = FALSE /\ selected' = -1
        /\ lz' = LZIdle

\* When the decoder left its buffers the call's outcome is undefined: any status.
DoLoadSectionExeFS ==
    \E name \in Names :
        \E g \in {LoadSectionExeFS(Reader, name)} :
            /\ SetReader(g.r)
            /\ op' = "LoadSectionExeFS"
            /\ arg' = name
            /\ result' \in (IF g.ub THEN ResultStatus ELSE {g.res})
            /\ buffer' = g.buffer /\ buffer_size' = g.buffer_size
            /\ program_id' = <<>> /\ romfs' = <<>>
            /\ load_result' = g.load_res /\ load_io' = g.load_io
            /\ observed' = g.observed /\ selected' = g.sel
            /\ lz' = g.lz

DoReadRomFS ==
    \E g \in {ReadRomFS(Reader)} :
        /\ UNCHANGED readerVars
        /\ op' = "ReadRomFS"
        /\ arg' = <<>>
        /\ result' = g.res
        /\ romfs' = g.romfs
        /\ buffer' = <<>> /\ buffer_size' = U(0) /\ program_id' = <<>>
        /\ load_result' = "none" /\ load_io' = 0
        /\ observed' = g.observed /\ selected' = -1
        /\ lz' = LZIdle

DoReadProgramId ==
    \E g \in {ReadProgramId(Reader)} :
        /\ SetReader(g.r)
        /\ op' = "ReadProgramId"
        /\ arg' = <<>>
        /\ result' = g.res
        /\ program_id' = g.program_id
        /\ buffer' = <<>> /\ buffer_size' = U(0) /\ romfs' = <<>>
        /\ load_result' = g.load_res /\ load_io' = g.load_io
        /\ observed' = g.observed /\ selected' = -1
        /\ lz' = LZIdle

Next ==
    \/ DoOpenFile
    \/ DoLoad
    \/ DoLoadSectionExeFS
    \/ DoReadRomFS
    \/ DoReadProgramId

Spec == Init /\ [][Next]_vars


\* ------------------------------------------------- the decoder on its own
(***************************************************************************)
(* The decoder run step by step on every compressed buffer of a bounded    *)
(* family: buffers too short to hold a footer, and buffers of up to        *)
(* MaxData bytes followed by a footer of 8 bytes.                          *)
(***************************************************************************)

MaxData == 6

\* A control byte of 0 (literals), of 0x10 (three literals, then a
\* back-reference) and of 0xFF (back-references); as the bytes of a
\* back-reference they give the lengths 3, 4 and 18.
DataBytes == {0, 16, 255}

\* The u32 at the end of the footer: nothing added, 3 bytes added, the
\* value whose sum with the compressed size wraps, and 0xFFFFF000, which
\* makes a decompressed size just below 2^32.
AddedSizes == {<<0, 0, 0, 0>>, <<3, 0, 0, 0>>, <<255, 255, 255, 255>>, <<0, 240, 255, 255>>}

\* Footers of a buffer of n bytes in all: stop_index at the end, at 0 and
\* below 0; index at the end, at the footer and below 0.
Footers(n) ==
    {<<bottom, 0, 0, top>> \o added :
        bottom \in {0, n, n + 1}, top \in {0, 8, n + 1}, added \in AddedSizes}

Blobs ==
    {Zeros(n) : n \in 0..7}
    \cup UNION {{d \o ft : d \in [1..n -> DataBytes], ft \in Footers(n + 8)} : n \in 0..MaxData}

LZSpecInit ==
    /\ file = ImgNone
    /\ pos = U(0)
    /\ MemberDefaults
    /\ ncch_header = CHOOSE h \in GarbageNCCHHeaders : h.romfs_offset = Zeros(4)
    /\ exheader_header = GarbageExHeader
    /\ exefs_header = GarbageExeFsHeader
    /\ NoCall
    /\ lz \in {LZInit(b) : b \in Blobs}

StepGetDecompressedSize ==
    /\ lz.pc = "size"
    /\ lz' = LZSS_GetDecompressedSize(lz)
    /\ UNCHANGED <<readerVars, callVars>>

StepFooter ==
    /\ lz.pc = "footer"
    /\ lz' = LZFooter(lz)
    /\ UNCHANGED <<readerVars, callVars>>

StepPrelude ==
    /\ lz.pc = "prelude"
    /\ lz' = LZPrelude(lz)
    /\ UNCHANGED <<readerVars, callVars>>

StepWhile ==
    /\ lz.pc = "while"
    /\ lz' = LZWhile(lz)
    /\ UNCHANGED <<readerVars, callVars>>

StepFor ==
    /\ lz.pc = "for"
    /\ lz' = LZFor(lz)
    /\ UNCHANGED <<readerVars, callVars>>

StepCopy ==
    /\ lz.pc = "copy"
    /\ lz' = LZCopy(lz)
    /\ UNCHANGED <<readerVars, callVars>>

LZNext ==
    \/ StepGetDecompressedSize
    \/ StepFooter
    \/ StepPrelude
    \/ StepWhile
    \/ StepFor
    \/ StepCopy

SpecLZSS == LZSpecInit /\ [][LZNext]_vars

\* The decoder runs on: a call of LZSS_Decompress is not suspended.
SpecLZSSRuns == SpecLZSS /\ WF_vars(LZNext)


\* ------------------------------------------------------------- the claims

\* A reader as the constructor leaves it over image f.
Fresh(f) ==
    [file |-> f, pos |-> U(0), is_loaded |-> FALSE, is_compressed |-> FALSE,
     ncch_offset |-> U(0), exefs_offset |-> U(0),
     ncch_header |-> CHOOSE h \in GarbageNCCHHeaders : h.romfs_offset = Zeros(4),
     exheader_header |-> GarbageExHeader, exefs_header |-> GarbageExeFsHeader]

\* The last operation ran Load(), and Load() parsed the file (it did not
\* return at once on is_loaded).
LoadParsed == load_result # "none" /\ load_io > 0

parsedVars ==
    <<is_loaded, is_compressed, ncch_offset, exefs_offset, ncch_header,
      exheader_header, exefs_header>>

\* C1: the decoder never reads the compressed buffer outside [0, L) and
\* never reads or writes the decompressed buffer outside [0, D), at any
\* step: the footer reads, index and stop_index derived from the footer and
\* the copy of the compressed bytes into the output included.
C1_NoAccessOutsideBuffers == lz.oob = "none"

\* C2: LoadSectionExeFS, ReadRomFS and ReadProgramId read the parsed state
\* only after a Load() on the reader has returned Success.
C2_ObservedOnlyWhenLoaded == observed => is_loaded

\* a & ~updateMask for a program id a.
MaskUpdate(id) == [k \in 1..8 |-> IF k = 5 THEN id[k] - ((id[k] \div 2) % 8) * 2 ELSE id[k]]

\* C3: with both headers read in full and the NCCH magic valid, Load()
\* returns ErrorEncrypted exactly when the ExHeader's program id, its update
\* bits cleared, differs from the NCCH header's; is_loaded then stays false.
C3_EncryptedIffIdsDiffer ==
    /\ (LoadParsed /\ load_result = "ErrorEncrypted")
          => (MaskUpdate(exheader_header.program_id) # ncch_header.program_id
              /\ ~is_loaded)
    /\ (LoadParsed /\ load_result = "Success")
          => MaskUpdate(exheader_header.program_id) = ncch_header.program_id

\* C4: on a reader that is loaded, Load() (called by itself or by an
\* accessor) returns Success, makes no seek and no read, and leaves
\* ncch_offset, exefs_offset, is_compressed and the three headers as they are.
C4_LoadIdempotent ==
    [][(is_loaded /\ load_result' # "none")
          => /\ load_result' = "Success"
             /\ load_io' = 0
             /\ UNCHANGED parsedVars
             /\ (op' = "Load" => (result' = "Success" /\ UNCHANGED <<file, pos>>))]_vars

\* A Load() on a loaded reader has just returned.
C4_Witness == is_loaded /\ op = "Load" /\ result = "Success" /\ load_io = 0

\* C5: is_loaded starts false; it becomes true only at the end of a Load()
\* that returns Success having parsed the file, and is never set back to
\* false (so it changes at most once).
C5_IsLoadedOnce ==
    /\ is_loaded = FALSE
    /\ [][/\ is_loaded => is_loaded'
          /\ (~is_loaded /\ is_loaded') => (load_result' = "Success" /\ load_io' > 0)]_vars

\* An OpenFile on a loaded reader has just returned, and is_loaded is still true.
C5_Witness == is_loaded /\ op = "OpenFile"

\* C6: after OpenFile the reader answers as a freshly constructed reader over
\* the file now bound would: ReadProgramId gives that file's status and
\* program id, LoadSectionExeFS that file's section.
C6_AnswersAsFreshReader ==
    /\ op = "ReadProgramId"
          => /\ result = ReadProgramId(Fresh(file)).res
             /\ program_id = ReadProgramId(Fresh(file)).program_id
    /\ (op = "LoadSectionExeFS" /\ ~LoadSectionExeFS(Fresh(file), arg).ub)
          => /\ result = LoadSectionExeFS(Fresh(file), arg).res
             /\ buffer = LoadSectionExeFS(Fresh(file), arg).buffer

\* The program id of the NCCH header that stands at position at of image f.
ProgramIdAt(f, at) == [k \in 1..8 |-> ByteAt(f, at + OffProgramId + k - 1)]

\* C7: when Load() returns Success on a file that starts with an NCSD header,
\* ncch_offset is 0x4000 and the program id held (and returned by
\* ReadProgramId) is that of the NCCH header at 0x4000; on a bare NCCH file
\* ncch_offset is 0 and the program id is that of the header at 0.
C7_NcsdSelectsFirstPartition ==
    (load_result = "Success")
        => /\ ncch_offset = U(IF file.ncsd THEN NcsdNcchOffset ELSE 0)
           /\ ncch_header.program_id =
                  ProgramIdAt(file, IF file.ncsd THEN NcsdNcchOffset ELSE 0)
           /\ (op = "ReadProgramId" => program_id = ncch_header.program_id)

\* Whether image f holds size bytes from position at on.
Holds(f, at, size) == f.open /\ at + size <= f.size

\* C8: a Load() that parses returns Error when the header at offset 0, or
\* the header at 0x4000 behind an NCSD header, is cut short by the end of
\* the file, and ErrorInvalidFormat, with is_loaded false, when the active
\* partition's header is whole and its magic is not NCCH.
C8_MagicAndShortReads ==
    LoadParsed =>
        /\ ~Holds(file, 0, SizeofNCCHHeader) => load_result = "Error"
        /\ (Holds(file, 0, SizeofNCCHHeader) /\ file.ncsd
              /\ ~Holds(file, NcsdNcchOffset, SizeofNCCHHeader))
              => load_result = "Error"
        /\ (Holds(file, ImgBase(file), SizeofNCCHHeader) /\ file.magic # MagicNCCH)
              => (load_result = "ErrorInvalidFormat" /\ ~is_loaded)

\* u32 * k, not truncated.
Mul(a, k) == LET l == a[2] * k IN <<a[1] * k + (l \div B16), l % B16>>

\* C9: when a Load() that parses returns Success, the NCCH header and the
\* ExeFS header lie within the file: ncch_offset + sizeof(NCCH_Header) and
\* ncch_offset + ncch_header.exefs_offset * 0x200 + sizeof(ExeFs_Header),
\* as numbers, are at most the file's size.
C9_HeadersWithinFile ==
    (LoadParsed /\ load_result = "Success")
        => /\ Le(Add(ncch_offset, U(SizeofNCCHHeader)), U(GetSize(file)))
           /\ Le(Add(Add(ncch_offset, Mul(LE32(ncch_header.exefs_offset, 1), kBlockSize)),
                     U(SizeofExeFsHeader)),
                 U(GetSize(file)))

\* The name held by section n's name field: its bytes up to the first NUL,
\* or all 8 of them.
FieldName(hdr, n) ==
    LET nul == {k \in 1..SectionNameLen : hdr[SectionAt(n) + k - 1] = 0}
        len == IF nul = {} THEN SectionNameLen ELSE SetMin(nul) - 1
    IN  SubSeq(hdr, SectionAt(n), SectionAt(n) + len - 1)

Named(hdr, name) == {n \in 0..(kMaxSections - 1) : FieldName(hdr, n) = name}

\* C10: on a loaded reader LoadSectionExeFS selects the lowest-numbered of
\* the 8 sections whose name field holds the name asked for, and returns
\* ErrorNotUsed when no section does.
C10_LowestNamedSection ==
    (op = "LoadSectionExeFS" /\ load_result = "Success")
        => IF Named(exefs_header, arg) = {}
           THEN selected = -1 /\ result = "ErrorNotUsed"
           ELSE selected = SetMin(Named(exefs_header, arg))

\* The 8 bytes of section n's name field are all zero.
EmptySlot(hdr, n) == \A k \in 0..(SectionNameLen - 1) : hdr[SectionAt(n) + k] = 0

\* C11: LoadSectionExeFS never selects a section whose name field is all
\* zero, whatever the name asked for, the empty string included.
C11_EmptySlotNeverSelected ==
    (op = "LoadSectionExeFS" /\ selected >= 0) => ~EmptySlot(exefs_header, selected)

\* abs = ncch_offset + exefs_offset + sizeof(ExeFs_Header) + section.offset
\* for section n, as a number.
SectionAbs(n) ==
    Add(Add(Add(ncch_offset, exefs_offset), U(SizeofExeFsHeader)),
        SectionOffset(exefs_header, n))

\* C12: when LoadSectionExeFS returns Success for a section, the section's
\* range [abs, abs + section.size), computed without wrap-around, lies within
\* the file, and the bytes read (the buffer, on the uncompressed path) are
\* the file's bytes from abs on.
C12_SectionRangeWithinFile ==
    (op = "LoadSectionExeFS" /\ result = "Success" /\ selected >= 0)
        => /\ Le(Add(SectionAbs(selected), SectionSize(exefs_header, selected)),
                 U(GetSize(file)))
           /\ lz.pc = "idle"
                 => buffer = [k \in 1..Held(buffer_size) |->
                                  ByteAt(file, ToInt(SectionAbs(selected)) + k - 1)]

\* The ExHeader held says the code is compressed.
FlagSet == exheader_header.flag[1] % 2 = 1

\* decompressed_size = read_u32_le(compressed[len-4..len]) + len, as a number.
DecompressedSizeOf(blob) == Add(LE32(blob, Len(blob) - 3), U(Len(blob)))

\* C13: when LoadSectionExeFS returns Success, the buffer's length is
\* section.size, the section having been read on the uncompressed path,
\* unless the name is ".code" and the ExHeader's compression flag is set:
\* then it is the LZSS decompressed size of the section's bytes.
C13_ReturnedLength ==
    (op = "LoadSectionExeFS" /\ result = "Success" /\ selected >= 0)
        => IF arg = DotCode /\ FlagSet
           THEN /\ Len(lz.compressed) >= 4
                /\ buffer_size = DecompressedSizeOf(lz.compressed)
           ELSE /\ lz.pc = "idle"
                /\ buffer_size = SectionSize(exefs_header, selected)
                /\ Len(buffer) = Held(buffer_size)

\* C14: when ReadRomFS returns Success with (offset, size), offset is
\* ncch_offset + romfs_offset * 0x200 + 0x1000 and size + 0x1000 is
\* romfs_size * 0x200, as numbers, and offset + size is at most the file's size.
C14_RomFsRangeWithinFile ==
    (op = "ReadRomFS" /\ result = "Success")
        => /\ romfs[1] = Add(Add(ncch_offset,
                                 Mul(LE32(ncch_header.romfs_offset, 1), kBlockSize)),
                             U(RomFsHeaderSkip))
           /\ Add(romfs[2], U(RomFsHeaderSkip))
                  = Mul(LE32(ncch_header.romfs_size, 1), kBlockSize)
           /\ Le(Add(romfs[1], romfs[2]), U(GetSize(file)))

\* C15: ReadRomFS on an open file returns ErrorNotUsed and gives no offset
\* and no size whenever the NCCH header held has romfs_offset = 0 or
\* romfs_size = 0.
C15_NoRomFsIsNotUsed ==
    (/\ op = "ReadRomFS"
     /\ IsOpen(file)
     /\ \/ ncch_header.romfs_offset = Zeros(4)
        \/ ncch_header.romfs_size = Zeros(4))
        => (result = "ErrorNotUsed" /\ romfs = <<>>)

\* ReadRomFS has returned on a loaded reader whose header names a RomFS
\* offset but a RomFS size of 0.
C15_Witness ==
    /\ op = "ReadRomFS"
    /\ is_loaded
    /\ ncch_header.romfs_offset # Zeros(4)
    /\ ncch_header.romfs_size = Zeros(4)
    /\ result = "ErrorNotUsed"

\* C16: a Load() that follows at once on a Load() (by itself or within an
\* accessor) that failed finds is_loaded false, parses the file again, and
\* returns the status and leaves the parsed state that Load() on a freshly
\* constructed reader over the same file does.
C16_FailedLoadLeavesNoTrace ==
    [][(load_result \notin {"none", "Success"} /\ op' = "Load")
          => /\ ~is_loaded
             /\ load_io' > 0
             /\ result' = Load(Fresh(file')).res
             /\ is_loaded' = Load(Fresh(file')).r.is_loaded
             /\ is_compressed' = Load(Fresh(file')).r.is_compressed
             /\ ncch_offset' = Load(Fresh(file')).r.ncch_offset
             /\ exefs_offset' = Load(Fresh(file')).r.exefs_offset
             /\ (result' = "Success"
                   => /\ ncch_header' = Load(Fresh(file')).r.ncch_header
                      /\ exheader_header' = Load(Fresh(file')).r.exheader_header
                      /\ exefs_header' = Load(Fresh(file')).r.exefs_header)]_vars

\* C17: once LZSS_GetDecompressedSize has computed it from a blob that holds
\* the 4 bytes it reads, decompressed_size is at least compressed_size, so
\* the output buffer can hold the copy of all the compressed bytes.
C17_DecompressedAtLeastCompressed ==
    (lz.pc \notin {"size", "idle"} /\ Len(lz.compressed) >= 4)
        => Le(CSize(lz), lz.dsize)

\* The 16-bit little-endian segment that stands below index x of the
\* compressed bytes of decoder state s.
SegmentBelow(s, x) == s.compressed[ToInt(x) - 1] + s.compressed[ToInt(x)] * 256

\* C18: a back-reference takes 2 bytes of input as its segment seg, has
\* length ((seg >> 12) & 0xF) + 3 and offset (seg & 0x0FFF) + 2; each of its
\* copy steps writes at out - 1 the byte that stands at output index
\* out + offset, out being the index before the step, and lowers out by 1;
\* the back-reference ends after exactly length copy steps.
C18_BackReferenceCopies ==
    [][/\ (lz.pc = "for" /\ lz'.pc = "copy")
            => /\ Add(lz'.index, U(2)) = lz.index
               /\ lz'.segment_size = ((SegmentBelow(lz, lz.index) \div 4096) % 16) + 3
               /\ lz'.segment_offset = (SegmentBelow(lz, lz.index) % 4096) + 2
               /\ lz'.out = lz.out
               /\ lz'.j = 0
       /\ (lz.pc = "copy" /\ lz'.pc = "copy")
            => /\ lz.j < lz.segment_size
               /\ lz'.j = lz.j + 1
               /\ Add(lz'.out, U(1)) = lz.out
               /\ lz'.index = lz.index
               /\ Lt(Add(lz.out, U(lz.segment_offset)), lz.dsize)
               /\ lz'.tail = <<DecAt(lz, Add(lz.out, U(lz.segment_offset)))>> \o lz.tail
       /\ (lz.pc = "copy" /\ lz'.pc = "for")
            => /\ lz.j = lz.segment_size
               /\ lz'.out = lz.out
               /\ lz'.index = lz.index]_vars

C20_DecoderTerminates ==
    /\ [](lz.pc \in {"prelude", "while", "for", "copy", "done"}
             => Le(lz.index, CSize(lz)))
    /\ [][lz.pc \in {"while", "for", "copy"}
             => (Le(lz'.index, lz.index) /\ Le(lz'.out, lz.out))]_vars
    /\ [][(lz.pc = "while" /\ lz'.pc = "for") => Lt(lz'.index, lz.index)]_vars
    /\ <>(lz.pc = "done")

====
